---- MODULE Spec2Model ----
(***************************************************************************)
(* easyaudiostream: the three playback managers of audio.py, the sink      *)
(* selection done when audio.py is imported, and the microphone capture    *)
(* streams of mic.py.                                                      *)
(*                                                                         *)
(* One manager (or capture stream) object is observed per behaviour: kind  *)
(* is its class.  Producer threads call play() on it; every statement of   *)
(* play() that reads or writes a field of the object is a step of its own, *)
(* so that calls made from several threads interleave as the interpreter   *)
(* lets them.  Times are in milliseconds, lengths in bytes.                *)
(***************************************************************************)
EXTENDS Integers, Sequences, FiniteSets, TLC

\* ------------------------------------------------------------- bounds
NumProducers == 2    \* threads that call play()
MaxPlays == 2        \* play() calls in one behaviour
MaxLateTicks == 1    \* ticks for which a thread that could run is kept from running
MaxFrames == 3       \* frames the input device produces in one behaviour

\* ---------------------------------------------------- program constants
FrameRate == 24000       \* set_frame_rate(24000)
SampleWidth == 2         \* set_sample_width(2)
ChunkMs == 500           \* make_chunks(segment, 500)
SilenceFrames == 2400    \* b"\0\0" * 2400
PollCapMs == 50          \* min(0.05, remaining), time.sleep(0.05)

\* The model's clock advances in steps of the poll period.
TickMs == PollCapMs

Producers == 1..NumProducers
Threads == 1..NumProducers     \* a play() call creates at most one thread
Handles == 1..NumProducers     \* and opens at most one handle
\* The buffers passed to play(): duration (ms) and frame rate (16-bit mono).
Inputs == {[ms |-> 50, rate |-> 48000], [ms |-> 1000, rate |-> 24000]}
None == 0
Free == <<"free", 0>>          \* the state of an unlocked threading.Lock

SinkKinds == {"PyAudio", "FFMPEG", "PyDub"}
MicKinds == {"MicSync", "MicAsync"}

VARIABLES
    has_pyaudio,   \* import pyaudio succeeds: _capabilities.has_pyaudio
    ffplay,        \* the ffplay executable: "absent", "failing" or "ok"
    gmgr,          \* audio._global_audio_manager: "unset", a class, or the exception
                   \* that ended the import
    warned,        \* warnings.warn(...) was called by the selection
    kind,          \* class of the observed object, "none" before it exists
    q,             \* self.q of the manager: sequence of segments
    handle,        \* self.stream / self.ffplay: None or the handle's number
    nhandles,      \* handles opened so far
    thread,        \* self.thread: None or the thread's number
    nthreads,      \* Thread objects created so far
    pending,       \* PyDubAudioManager.pending_segment (NoSeg is None)
    has_pending,   \* PyDubAudioManager._has_pending
    lock,          \* PyDubAudioManager._lock: Free, or who holds it
    prod,          \* per producer: position inside play() and its argument
    thr,           \* per delivery thread: position and locals
    out,           \* what the sink has received, in order
    enq,           \* segments in the order they entered the queue / the slot
    nplays,        \* play() calls begun
    returned,      \* play() calls that returned normally
    raised,        \* play() calls that ended with an exception
    callers,       \* producer threads that have called play(): 1..callers
    exited,        \* handles whose player process has exited
    clk,           \* timing of the pipe as a whole
    mic            \* the capture stream object, its thread and its consumer

vars == <<has_pyaudio, ffplay, gmgr, warned, kind, q, handle, nhandles,
          thread, nthreads, pending, has_pending, lock, prod, thr, out, enq,
          nplays, returned, raised, callers, exited, clk, mic>>

capVars == <<has_pyaudio, ffplay>>
selVars == <<gmgr, warned>>
fallbackVars == <<pending, has_pending, lock>>

\* ------------------------------------------------------------ segments
\* An AudioSegment: the play() calls whose audio it holds, in order, and its
\* duration.  None is NoSeg.
NoSeg == [ids |-> <<>>, ms |-> 0, rate |-> 0]
Seg(id, ms, rate) == [ids |-> <<id>>, ms |-> ms, rate |-> rate]

Min(a, b) == IF a <= b THEN a ELSE b
Max(a, b) == IF a >= b THEN a ELSE b

\* segment.set_frame_rate(24000).set_channels(1).set_sample_width(2)
ToPcm(seg) == [seg EXCEPT !.rate = FrameRate]

\* A concatenation that loses its left operand.
ConcatRightOnly(a, b) == b

\* AudioSegment.__add__: both operands are brought to the higher frame rate
Concat(a, b) ==
    [ids |-> a.ids \o b.ids, ms |-> a.ms + b.ms, rate |-> Max(a.rate, b.rate)]

\* len(raw_data) of ms milliseconds of 16-bit mono audio at a frame rate
RawLen(ms, rate) == (ms * rate * SampleWidth) \div 1000

\* segment.duration_seconds, in ms
Duration(seg) == seg.ms

\* make_chunks(segment, 500): the number of chunks, and the length of chunk i
NumChunks(seg) == (seg.ms + ChunkMs - 1) \div ChunkMs
ChunkLen(seg, i) == Min(i * ChunkMs, seg.ms) - (i - 1) * ChunkMs

\* b"\0\0" * 2400
SilenceBytes == SampleWidth * SilenceFrames

\* A sleep of half the remaining time and of no more than the poll period.
SleepCapped2(remaining) == Min(2 * PollCapMs, remaining)

\* max(min(0.05, remaining), remaining / 2), in half milliseconds
SleepFor2(remaining) == Max(2 * Min(PollCapMs, remaining), remaining)

\* -------------------------------------------------------- sink records
\* One write to the sink (for the fallback: one call of pydub's play): what
\* was written, how much, by which thread, to which handle.
Audio(seg, part, ms, t) ==
    [k |-> "audio", ids |-> seg.ids, part |-> part, ms |-> ms,
     n |-> RawLen(ms, seg.rate), by |-> {t}, h |-> handle]
Silence(t) ==
    [k |-> "silence", ids |-> <<>>, part |-> 0, ms |-> 0, n |-> SilenceBytes,
     by |-> {t}, h |-> handle]

IdleProd == [pc |-> "idle", seg |-> NoSeg]
NoThread == [pc |-> "none", seg |-> NoSeg, part |-> 0, ahead |-> 0, nap2 |-> 0, adv |-> -1,
             late |-> 0]
\* The capture stream object before it exists:
\*   ctor      how far __init__ has got
\*   q, loop   whether self.q / self.loop is bound
\*   tpc       position of the capture thread; frame is the frame it holds
\*   avail     blocks the device holds for stream.read(), produced so far
\*   cq        contents of self.q; got is what the consumer has pulled
\*   read      the frames stream.read() has returned, in order
\*   loopst    state of the consumer's event loop
\*   sub       state of the put submitted to the loop
NoMic == [ctor |-> "none", q |-> FALSE, loop |-> FALSE, tpc |-> "none", frame |-> <<>>,
          avail |-> <<>>, produced |-> 0, cq |-> <<>>, got |-> <<>>, read |-> <<>>,
          loopst |-> "none", sub |-> "none"]

\* ------------------------------------------------------ sink selection
\* import of _capabilities: subprocess.run(["ffplay", "-version"], ...) raises
\* FileNotFoundError when there is no such executable, and the import of
\* audio.py or mic.py, which begins with it, ends there.
CapabilitiesLoad == IF ffplay = "absent" THEN "FileNotFoundError" ELSE "ok"

\* ffplay_available = (subprocess.run(...).returncode == 0)
ffplay_available == ffplay = "ok"

\* The names _capabilities.py binds.
CapabilityNames == {"ffplay_available", "has_pyaudio"}

\* The if / elif / else at the bottom of audio.py: the elif reads
\* _capabilities.has_ffmpeg.
SelectSink ==
    IF CapabilitiesLoad # "ok" THEN CapabilitiesLoad
    ELSE IF has_pyaudio THEN "PyAudio"
    ELSE IF "has_ffmpeg" \notin CapabilityNames THEN "AttributeError"
    ELSE IF ffplay_available THEN "FFMPEG"
    ELSE "PyDub"

\* import easyaudiostream.audio
ImportAudio ==
    /\ gmgr = "unset"
    /\ gmgr' = SelectSink
    /\ warned' = (SelectSink = "PyDub")
    /\ UNCHANGED <<capVars, kind, q, handle, nhandles, thread, nthreads, fallbackVars,
                   prod, thr, out, enq, nplays, returned, raised, callers, exited, clk,
                   mic>>

\* play_audio / play_raw_audio: the observed manager is the global one.
UseGlobal ==
    /\ gmgr \in SinkKinds
    /\ kind = "none"
    /\ kind' = gmgr
    /\ UNCHANGED <<capVars, selVars, q, handle, nhandles, thread, nthreads,
                   fallbackVars, prod, thr, out, enq, nplays, returned, raised,
                   callers, exited, clk, mic>>

\* test_stream.py: a manager constructed by the caller.  The classes
\* exist once audio.py has been imported; the pipe manager is given a player
\* that can be spawned.
Construct(k) ==
    /\ gmgr \in SinkKinds
    /\ kind = "none"
    /\ k = "FFMPEG" => ffplay_available
    /\ kind' = k
    /\ UNCHANGED <<capVars, selVars, q, handle, nhandles, thread, nthreads,
                   fallbackVars, prod, thr, out, enq, nplays, returned, raised,
                   callers, exited, clk, mic>>

\* ------------------------------------------------------------ play()
\* Producer threads are interchangeable: they are numbered in the order of
\* their first call (producer p calls only once producer p - 1 has).
Return(p) == [prod EXCEPT ![p] = IdleProd]

\* PyAudioAudioManager.play / FFMPEGAudioManager.play: convert, then self.q.put
PlayPut(p, ms, rate) ==
    /\ kind \in {"PyAudio", "FFMPEG"}
    /\ prod[p].pc = "idle"
    /\ nplays < MaxPlays
    /\ p <= callers + 1
    /\ callers' = Max(callers, p)
    /\ nplays' = nplays + 1
    /\ q' = Append(q, ToPcm(Seg(nplays + 1, ms, rate)))
    /\ enq' = Append(enq, ToPcm(Seg(nplays + 1, ms, rate)))
    /\ prod' = [prod EXCEPT ![p] = [pc |-> "chk_handle",
                                    seg |-> ToPcm(Seg(nplays + 1, ms, rate))]]
    /\ UNCHANGED <<capVars, selVars, kind, handle, nhandles, thread, nthreads,
                   fallbackVars, thr, out, returned, raised, exited, clk, mic>>

\* A play() that goes on to the thread without opening the handle.
ChkHandleSkip(p) ==
    /\ prod[p].pc = "chk_handle"
    /\ prod' = [prod EXCEPT ![p].pc = "chk_thread"]
    /\ UNCHANGED <<capVars, selVars, kind, q, handle, nhandles, thread, nthreads,
                   fallbackVars, thr, out, enq, nplays, returned, raised, callers,
                   exited, clk, mic>>

\* if self.stream is None: / if self.ffplay is None:
ChkHandle(p) ==
    /\ prod[p].pc = "chk_handle"
    /\ prod' = [prod EXCEPT ![p].pc = IF handle = None THEN "open" ELSE "chk_thread"]
    /\ UNCHANGED <<capVars, selVars, kind, q, handle, nhandles, thread, nthreads,
                   fallbackVars, thr, out, enq, nplays, returned, raised, callers,
                   exited, clk, mic>>

\* self.stream = p.open(...) / self.ffplay = subprocess.Popen(...)
OpenHandle(p) ==
    /\ prod[p].pc = "open"
    /\ nhandles' = nhandles + 1
    /\ handle' = nhandles + 1
    /\ prod' = [prod EXCEPT ![p].pc = "chk_thread"]
    /\ UNCHANGED <<capVars, selVars, kind, q, thread, nthreads, fallbackVars, thr, out,
                   enq, nplays, returned, raised, callers, exited, clk, mic>>

\* if self.thread is None: (device and pipe managers: the last statement)
ChkThread(p) ==
    /\ prod[p].pc = "chk_thread"
    /\ IF thread = None
       THEN /\ prod' = [prod EXCEPT ![p].pc = "mk_thread"]
            /\ UNCHANGED returned
       ELSE /\ prod' = Return(p)
            /\ returned' = returned + 1
    /\ UNCHANGED <<capVars, selVars, kind, q, handle, nhandles, thread, nthreads,
                   fallbackVars, thr, out, enq, nplays, raised, callers, exited, clk,
                   mic>>

\* self.thread = threading.Thread(target=self._thread_entrypoint, daemon=True)
MkThread(p) ==
    /\ prod[p].pc = "mk_thread"
    /\ nthreads' = nthreads + 1
    /\ thread' = nthreads + 1
    /\ thr' = [thr EXCEPT ![nthreads + 1].pc = "created"]
    /\ prod' = [prod EXCEPT ![p].pc = "start"]
    /\ UNCHANGED <<capVars, selVars, kind, q, handle, nhandles, fallbackVars, out, enq,
                   nplays, returned, raised, callers, exited, clk, mic>>

\* Where play() goes on after self.thread.start().
AfterStart(p) ==
    IF kind = "PyDub" THEN [prod EXCEPT ![p].pc = "acquire"] ELSE Return(p)

\* self.thread.start(): starts the Thread self.thread names now; starting a
\* Thread a second time raises RuntimeError.
StartThread(p) ==
    /\ prod[p].pc = "start"
    /\ IF thr[thread].pc = "created"
       THEN /\ thr' = [thr EXCEPT ![thread].pc = "started"]
            /\ prod' = AfterStart(p)
            /\ returned' = IF kind = "PyDub" THEN returned ELSE returned + 1
            /\ UNCHANGED raised
       ELSE /\ prod' = Return(p)
            /\ raised' = raised + 1
            /\ UNCHANGED <<thr, returned>>
    /\ UNCHANGED <<capVars, selVars, kind, q, handle, nhandles, thread, nthreads,
                   fallbackVars, out, enq, nplays, callers, exited, clk, mic>>

\* PyDubAudioManager.play: if self.thread is None:
FbChkThread(p, ms, rate) ==
    /\ kind = "PyDub"
    /\ prod[p].pc = "idle"
    /\ nplays < MaxPlays
    /\ p <= callers + 1
    /\ callers' = Max(callers, p)
    /\ nplays' = nplays + 1
    /\ prod' = [prod EXCEPT ![p] = [pc |-> IF thread = None THEN "mk_thread" ELSE "acquire",
                                    seg |-> Seg(nplays + 1, ms, rate)]]
    /\ UNCHANGED <<capVars, selVars, kind, q, handle, nhandles, thread, nthreads,
                   fallbackVars, thr, out, enq, returned, raised, exited, clk, mic>>

\* with self._lock: (entry)
FbAcquire(p) ==
    /\ prod[p].pc = "acquire"
    /\ lock = Free
    /\ lock' = <<"p", p>>
    /\ prod' = [prod EXCEPT ![p].pc = "merge"]
    /\ UNCHANGED <<capVars, selVars, kind, q, handle, nhandles, thread, nthreads,
                   pending, has_pending, thr, out, enq, nplays, returned, raised,
                   callers, exited, clk, mic>>

\* A play() that keeps only its own segment in the slot.
MergedOverwrite(slot, seg) == seg

\* if self.pending_segment is not None: self.pending_segment += segment
\* else: self.pending_segment = segment
Merged(slot, seg) == IF slot # NoSeg THEN Concat(slot, seg) ELSE seg

\* the body of the with block, and its exit
FbMerge(p) ==
    /\ prod[p].pc = "merge"
    /\ pending' = Merged(pending, prod[p].seg)
    /\ has_pending' = IF pending # NoSeg THEN has_pending ELSE TRUE
    /\ enq' = Append(enq, prod[p].seg)
    /\ lock' = Free
    /\ prod' = Return(p)
    /\ returned' = returned + 1
    /\ UNCHANGED <<capVars, selVars, kind, q, handle, nhandles, thread, nthreads, thr,
                   out, nplays, raised, callers, exited, clk, mic>>

\* ------------------------------------------- device delivery thread
\* PyAudioAudioManager._thread_entrypoint: time.sleep(0.1)
DevSleep(t) ==
    /\ kind = "PyAudio"
    /\ thr[t].pc = "started"
    /\ thr' = [thr EXCEPT ![t].pc = "get"]
    /\ UNCHANGED <<capVars, selVars, kind, q, handle, nhandles, thread, nthreads,
                   fallbackVars, prod, out, enq, nplays, returned, raised, callers,
                   exited, clk, mic>>

\* segment = self.q.get()
DevGet(t) ==
    /\ kind = "PyAudio"
    /\ thr[t].pc = "get"
    /\ q # <<>>
    /\ q' = Tail(q)
    /\ thr' = [thr EXCEPT ![t].seg = Head(q), ![t].part = 1,
                          ![t].pc = IF NumChunks(Head(q)) = 0 THEN "get" ELSE "write"]
    /\ UNCHANGED <<capVars, selVars, kind, handle, nhandles, thread, nthreads,
                   fallbackVars, prod, out, enq, nplays, returned, raised, callers,
                   exited, clk, mic>>

\* for chunk in make_chunks(segment, 500): self.stream.write(chunk.raw_data)
DevWrite(t) ==
    /\ kind = "PyAudio"
    /\ thr[t].pc = "write"
    /\ out' = Append(out, Audio(thr[t].seg, thr[t].part,
                                ChunkLen(thr[t].seg, thr[t].part), t))
    /\ thr' = IF thr[t].part = NumChunks(thr[t].seg)
              THEN [thr EXCEPT ![t].pc = "get", ![t].seg = NoSeg, ![t].part = 0]
              ELSE [thr EXCEPT ![t].part = thr[t].part + 1]
    /\ UNCHANGED <<capVars, selVars, kind, q, handle, nhandles, thread, nthreads,
                   fallbackVars, prod, enq, nplays, returned, raised, callers, exited,
                   clk, mic>>

\* --------------------------------------------- pipe delivery thread
\* The clock readings of a pipe delivery thread t are kept relative to
\* time.perf_counter():
\*   thr[t].ahead  playing_until - time.perf_counter()
\*   thr[t].nap2   what is left of the running time.sleep(), in half milliseconds
\*   thr[t].adv    playing_until minus its first value, until playing_until is
\*                 set from the clock again; -1 afterwards
\*   thr[t].late   ticks since the thread could run and has not
\* and of the pipe as a whole:
\*   clk.t      the delivery thread that entered its loop first
\*   clk.n0     the number of segments in the queue when it did
\*   clk.quiet  time since silence was last written to the pipe (by any
\*              thread), PollCapMs or more being PollCapMs
NoClock == [t |-> None, n0 |-> 0, quiet |-> 0]

\* The thread's record after a step that leaves its clock readings alone.
Ran(t, pc) == [thr EXCEPT ![t].pc = pc, ![t].late = 0]

\* FFMPEGAudioManager._thread_entrypoint: playing_until = time.perf_counter()
PipeStart(t) ==
    /\ kind = "FFMPEG"
    /\ thr[t].pc = "started"
    /\ thr' = [thr EXCEPT ![t].pc = "poll", ![t].ahead = 0, ![t].adv = 0]
    /\ clk' = IF clk.t = None THEN [t |-> t, n0 |-> Len(q), quiet |-> PollCapMs] ELSE clk
    /\ UNCHANGED <<capVars, selVars, kind, q, handle, nhandles, thread, nthreads,
                   fallbackVars, prod, out, enq, nplays, returned, raised, callers,
                   exited, mic>>

\* segment = self.q.get(block=False), a segment being there
PipeGet(t) ==
    /\ kind = "FFMPEG"
    /\ thr[t].pc = "poll"
    /\ q # <<>>
    /\ q' = Tail(q)
    /\ thr' = [Ran(t, "write") EXCEPT ![t].seg = Head(q)]
    /\ UNCHANGED <<capVars, selVars, kind, handle, nhandles, thread, nthreads,
                   fallbackVars, prod, out, enq, nplays, returned, raised, callers,
                   exited, mic, clk>>

\* A loop that leaves playing_until where it was.
AdvanceNot(ahead, seg) == ahead

\* playing_until += segment.duration_seconds
Advance(ahead, seg) == ahead + Duration(seg)

\* self.ffplay.stdin.write(segment.raw_data); flush();
\* playing_until += segment.duration_seconds.  The write raises once the
\* player has exited, and the thread ends.
PipeWrite(t) ==
    /\ kind = "FFMPEG"
    /\ thr[t].pc = "write"
    /\ IF handle \in exited
       THEN /\ thr' = [thr EXCEPT ![t] = [NoThread EXCEPT !.pc = "dead"]]
            /\ UNCHANGED out
       ELSE /\ out' = Append(out, Audio(thr[t].seg, 1, thr[t].seg.ms, t))
            /\ thr' = [Ran(t, "poll") EXCEPT
                          ![t].seg = NoSeg,
                          ![t].ahead = Advance(thr[t].ahead, thr[t].seg),
                          ![t].adv = IF thr[t].adv < 0 THEN -1
                                     ELSE Advance(thr[t].adv, thr[t].seg)]
    /\ UNCHANGED <<capVars, selVars, kind, q, handle, nhandles, thread, nthreads,
                   fallbackVars, prod, enq, nplays, returned, raised, callers, exited,
                   clk, mic>>

\* A test that takes audio with a poll period or less to go for finished.
StillPlayingLong(ahead) == ahead > PollCapMs

\* A test that never finds audio still playing.
NeverPlaying(ahead) == FALSE

\* if playing_until > now:
StillPlaying(ahead) == ahead > 0

\* except queue.Empty: now = time.perf_counter(); if playing_until > now:
\* the sleep is entered, else the silence branch
PipeEmpty(t) ==
    /\ kind = "FFMPEG"
    /\ thr[t].pc = "poll"
    /\ q = <<>>
    /\ thr' = IF StillPlaying(thr[t].ahead)
              THEN [Ran(t, "sleep") EXCEPT ![t].nap2 = SleepFor2(thr[t].ahead)]
              ELSE Ran(t, "silence")
    /\ UNCHANGED <<capVars, selVars, kind, q, handle, nhandles, thread, nthreads,
                   fallbackVars, prod, out, enq, nplays, returned, raised, callers,
                   exited, mic, clk>>

\* time.sleep(...) has lasted as long as asked
Slept(t) == thr[t].nap2 = 0

\* time.sleep(max(min(0.05, remaining), remaining / 2)) returns
PipeWake(t) ==
    /\ kind = "FFMPEG"
    /\ thr[t].pc = "sleep"
    /\ Slept(t)
    /\ thr' = Ran(t, "poll")
    /\ UNCHANGED <<capVars, selVars, kind, q, handle, nhandles, thread, nthreads,
                   fallbackVars, prod, out, enq, nplays, returned, raised, callers,
                   exited, mic, clk>>

\* The sink's record with a silence block added: a run of silence blocks is
\* kept as one entry, with the threads that wrote into it.
WithSilence(t) ==
    IF out # <<>> /\ out[Len(out)].k = "silence"
    THEN [out EXCEPT ![Len(out)].by = @ \cup {t}]
    ELSE Append(out, Silence(t))

\* self.ffplay.stdin.write(silence_bytes); flush(); time.sleep(0.05) is entered
PipeSilence(t) ==
    /\ kind = "FFMPEG"
    /\ thr[t].pc = "silence"
    /\ IF handle \in exited
       THEN /\ thr' = [thr EXCEPT ![t] = [NoThread EXCEPT !.pc = "dead"]]
            /\ UNCHANGED <<out, clk>>
       ELSE /\ out' = WithSilence(t)
            /\ thr' = [Ran(t, "sleep_idle") EXCEPT ![t].nap2 = 2 * PollCapMs]
            /\ clk' = [clk EXCEPT !.quiet = 0]
    /\ UNCHANGED <<capVars, selVars, kind, q, handle, nhandles, thread, nthreads,
                   fallbackVars, prod, enq, nplays, returned, raised, callers, exited,
                   mic>>

\* time.sleep(0.05) returns; playing_until = time.perf_counter()
PipeWakeIdle(t) ==
    /\ kind = "FFMPEG"
    /\ thr[t].pc = "sleep_idle"
    /\ Slept(t)
    /\ thr' = [Ran(t, "poll") EXCEPT ![t].ahead = 0, ![t].adv = -1]
    /\ UNCHANGED <<capVars, selVars, kind, q, handle, nhandles, thread, nthreads,
                   fallbackVars, prod, out, enq, nplays, returned, raised, callers,
                   exited, mic, clk>>

\* The player process exits.
PlayerExit(h) ==
    /\ kind = "FFMPEG"
    /\ h \in 1..nhandles
    /\ h \notin exited
    /\ exited' = exited \cup {h}
    /\ UNCHANGED <<capVars, selVars, kind, q, handle, nhandles, thread, nthreads,
                   fallbackVars, prod, thr, out, enq, nplays, returned, raised,
                   callers, mic, clk>>

\* The delivery threads inside their loop, those inside time.sleep(), and
\* those that could run.
Looping == {t \in Threads : thr[t].pc \in {"poll", "write", "silence", "sleep", "sleep_idle"}}
Asleep == {t \in Looping : thr[t].pc \in {"sleep", "sleep_idle"} /\ thr[t].nap2 > 0}
Runnable == Looping \ Asleep

\* A sleep's remainder in whole ticks, and the shortest of those running.
NapTicks(t) == (thr[t].nap2 + 2 * TickMs - 1) \div (2 * TickMs)
ShortestNap == CHOOSE n \in {NapTicks(t) : t \in Asleep} : \A t \in Asleep : n <= NapTicks(t)

\* The delivery threads d milliseconds later.
Later(d) ==
    [t \in Threads |->
        IF t \notin Looping THEN thr[t]
        ELSE [thr[t] EXCEPT !.ahead = @ - d,
                            !.nap2 = Max(@ - 2 * d, 0),
                            !.late = IF t \in Asleep THEN 0 ELSE @ + 1]]

\* time.perf_counter() advances: by one tick while a delivery thread could
\* run (none is kept from running for more than MaxLateTicks), and to the
\* end of the shortest sleep while all of them sleep.
Tick ==
    /\ kind = "FFMPEG"
    /\ Looping # {}
    /\ \A t \in Runnable : thr[t].late < MaxLateTicks
    /\ \E d \in {IF Runnable # {} THEN TickMs ELSE ShortestNap * TickMs} :
        /\ thr' = Later(d)
        /\ clk' = [clk EXCEPT !.quiet = Min(clk.quiet + d, PollCapMs)]
    /\ UNCHANGED <<capVars, selVars, kind, q, handle, nhandles, thread, nthreads,
                   fallbackVars, prod, out, enq, nplays, returned, raised, callers,
                   exited, mic>>

\* ----------------------------------------- fallback delivery thread
\* PyDubAudioManager._thread_entrypoint: self._has_pending.wait()
FbWait(t) ==
    /\ kind = "PyDub"
    /\ thr[t].pc \in {"started", "wait"}
    /\ has_pending
    /\ thr' = [thr EXCEPT ![t].pc = "acquire"]
    /\ UNCHANGED <<capVars, selVars, kind, q, handle, nhandles, thread, nthreads,
                   fallbackVars, prod, out, enq, nplays, returned, raised, callers,
                   exited, clk, mic>>

\* with self._lock: (entry)
FbThreadAcquire(t) ==
    /\ kind = "PyDub"
    /\ thr[t].pc = "acquire"
    /\ lock = Free
    /\ lock' = <<"t", t>>
    /\ thr' = [thr EXCEPT ![t].pc = "take"]
    /\ UNCHANGED <<capVars, selVars, kind, q, handle, nhandles, thread, nthreads,
                   pending, has_pending, prod, out, enq, nplays, returned, raised,
                   callers, exited, clk, mic>>

\* A thread that would call play(segment) inside the with block.
FbTakeHolding(t) ==
    /\ kind = "PyDub"
    /\ thr[t].pc = "take"
    /\ thr' = [thr EXCEPT ![t].pc = "play", ![t].seg = pending]
    /\ pending' = NoSeg
    /\ has_pending' = FALSE
    /\ UNCHANGED <<capVars, selVars, kind, q, handle, nhandles, thread, nthreads, lock,
                   prod, out, enq, nplays, returned, raised, callers, exited, clk, mic>>

\* segment = self.pending_segment; self.pending_segment = None;
\* self._has_pending.clear(); and the exit of the with block
FbTake(t) ==
    /\ kind = "PyDub"
    /\ thr[t].pc = "take"
    /\ thr' = [thr EXCEPT ![t].pc = "play", ![t].seg = pending]
    /\ pending' = NoSeg
    /\ has_pending' = FALSE
    /\ lock' = Free
    /\ UNCHANGED <<capVars, selVars, kind, q, handle, nhandles, thread, nthreads, prod,
                   out, enq, nplays, returned, raised, callers, exited, clk, mic>>

\* play(segment) is entered; play(None) raises and the thread ends
FbPlay(t) ==
    /\ kind = "PyDub"
    /\ thr[t].pc = "play"
    /\ IF thr[t].seg = NoSeg
       THEN /\ thr' = [thr EXCEPT ![t].pc = "dead"]
            /\ UNCHANGED out
       ELSE /\ out' = Append(out, Audio(thr[t].seg, 1, thr[t].seg.ms, t))
            /\ thr' = [thr EXCEPT ![t].pc = "playing"]
    /\ UNCHANGED <<capVars, selVars, kind, q, handle, nhandles, thread, nthreads,
                   fallbackVars, prod, enq, nplays, returned, raised, callers, exited,
                   clk, mic>>

\* play(segment) returns
FbPlayDone(t) ==
    /\ kind = "PyDub"
    /\ thr[t].pc = "playing"
    /\ thr' = [thr EXCEPT ![t].pc = "wait", ![t].seg = NoSeg]
    /\ UNCHANGED <<capVars, selVars, kind, q, handle, nhandles, thread, nthreads,
                   fallbackVars, prod, out, enq, nplays, returned, raised, callers,
                   exited, clk, mic>>

\* ------------------------------------------------------------ capture
\* get_mic_stream / get_mic_stream_async with PyAudio installed:
\* PyAudioInputManagerBase.__init__ opens the stream and starts the thread
OpenMic(k) ==
    /\ CapabilitiesLoad = "ok"
    /\ has_pyaudio
    /\ kind = "none"
    /\ kind' = k
    /\ mic' = [NoMic EXCEPT !.ctor = "base", !.tpc = "poll",
                            !.loopst = IF k = "MicAsync" THEN "running" ELSE "none"]
    /\ UNCHANGED <<capVars, selVars, q, handle, nhandles, thread, nthreads,
                   fallbackVars, prod, thr, out, enq, nplays, returned, raised,
                   callers, exited, clk>>

\* the subclass __init__ after super().__init__(): self.q = ...Queue()
MicCtorQ ==
    /\ mic.ctor = "base"
    /\ mic' = [mic EXCEPT !.q = TRUE, !.ctor = IF kind = "MicSync" THEN "done" ELSE "q"]
    /\ UNCHANGED <<kind, capVars, selVars, q, handle, nhandles, thread, nthreads,
                   fallbackVars, prod, thr, out, enq, nplays, returned, raised,
                   callers, exited, clk>>

\* PyAudioInputManagerAsync.__init__: self.loop = asyncio.get_event_loop()
MicCtorLoop ==
    /\ mic.ctor = "q"
    /\ mic' = [mic EXCEPT !.loop = TRUE, !.ctor = "done"]
    /\ UNCHANGED <<kind, capVars, selVars, q, handle, nhandles, thread, nthreads,
                   fallbackVars, prod, thr, out, enq, nplays, returned, raised,
                   callers, exited, clk>>

\* The input device has one more block of samples to read.
DeviceFrame ==
    /\ kind \in MicKinds
    /\ mic.produced < MaxFrames
    /\ mic' = [mic EXCEPT !.produced = mic.produced + 1,
                          !.avail = Append(mic.avail, mic.produced + 1)]
    /\ UNCHANGED <<kind, capVars, selVars, q, handle, nhandles, thread, nthreads,
                   fallbackVars, prod, thr, out, enq, nplays, returned, raised,
                   callers, exited, clk>>

\* _thread_entrypoint: n_available = self.stream.get_read_available(); with
\* none, time.sleep(0.05) is entered; else frame = self.stream.read(n_available)
MicPoll ==
    /\ mic.tpc = "poll"
    /\ mic' = IF mic.avail = <<>>
              THEN [mic EXCEPT !.tpc = "sleep"]
              ELSE [mic EXCEPT !.tpc = "enqueue", !.frame = mic.avail, !.avail = <<>>,
                               !.read = Append(mic.read, mic.avail)]
    /\ UNCHANGED <<kind, capVars, selVars, q, handle, nhandles, thread, nthreads,
                   fallbackVars, prod, thr, out, enq, nplays, returned, raised,
                   callers, exited, clk>>

\* time.sleep(0.05) returns; continue
MicSleep ==
    /\ mic.tpc = "sleep"
    /\ mic' = [mic EXCEPT !.tpc = "poll"]
    /\ UNCHANGED <<kind, capVars, selVars, q, handle, nhandles, thread, nthreads,
                   fallbackVars, prod, thr, out, enq, nplays, returned, raised,
                   callers, exited, clk>>

\* PyAudioInputManagerSync._enqueue: self.q.put(frame); AttributeError while
\* self.q is not bound, which ends the thread
MicEnqueueSync ==
    /\ kind = "MicSync"
    /\ mic.tpc = "enqueue"
    /\ mic' = IF mic.q
              THEN [mic EXCEPT !.cq = Append(mic.cq, mic.frame), !.frame = <<>>,
                               !.tpc = "poll"]
              ELSE [mic EXCEPT !.tpc = "dead"]
    /\ UNCHANGED <<kind, capVars, selVars, q, handle, nhandles, thread, nthreads,
                   fallbackVars, prod, thr, out, enq, nplays, returned, raised,
                   callers, exited, clk>>

\* PyAudioInputManagerAsync._enqueue:
\* fut = asyncio.run_coroutine_threadsafe(self.q.put(frame), self.loop).
\* AttributeError while self.q or self.loop is not bound, RuntimeError from a
\* closed loop: neither is caught, and the thread ends.
MicSubmit ==
    /\ kind = "MicAsync"
    /\ mic.tpc = "enqueue"
    /\ mic' = IF mic.q /\ mic.loop /\ mic.loopst # "closed"
              THEN [mic EXCEPT !.sub = "pending", !.tpc = "wait"]
              ELSE [mic EXCEPT !.tpc = "dead"]
    /\ UNCHANGED <<kind, capVars, selVars, q, handle, nhandles, thread, nthreads,
                   fallbackVars, prod, thr, out, enq, nplays, returned, raised,
                   callers, exited, clk>>

\* The event loop runs the submitted self.q.put(frame): the queue is not
\* bounded, the put completes.
LoopRunPut ==
    /\ mic.loopst = "running"
    /\ mic.sub = "pending"
    /\ mic' = [mic EXCEPT !.cq = Append(mic.cq, mic.frame), !.frame = <<>>,
                          !.sub = "done"]
    /\ UNCHANGED <<kind, capVars, selVars, q, handle, nhandles, thread, nthreads,
                   fallbackVars, prod, thr, out, enq, nplays, returned, raised,
                   callers, exited, clk>>

\* fut.result() returns, or raises CancelledError, which is passed over
MicResult ==
    /\ mic.tpc = "wait"
    /\ mic.sub \in {"done", "cancelled"}
    /\ mic' = [mic EXCEPT !.tpc = "poll", !.frame = <<>>, !.sub = "none"]
    /\ UNCHANGED <<kind, capVars, selVars, q, handle, nhandles, thread, nthreads,
                   fallbackVars, prod, thr, out, enq, nplays, returned, raised,
                   callers, exited, clk>>

\* The consumer's event loop stops running (and may be closed); a put that
\* was submitted and has not run is cancelled or left as it is.
LoopStop(st, cancel) ==
    /\ mic.loopst = "running"
    /\ mic.ctor = "done"
    /\ mic' = [mic EXCEPT !.loopst = st,
                          !.sub = IF mic.sub = "pending" /\ cancel
                                  THEN "cancelled" ELSE mic.sub]
    /\ UNCHANGED <<kind, capVars, selVars, q, handle, nhandles, thread, nthreads,
                   fallbackVars, prod, thr, out, enq, nplays, returned, raised,
                   callers, exited, clk>>

\* __next__: self.q.get() / __anext__: await self.q.get()
Pull ==
    /\ mic.ctor = "done"
    /\ kind = "MicAsync" => mic.loopst = "running"
    /\ mic.cq # <<>>
    /\ mic' = [mic EXCEPT !.got = Append(mic.got, Head(mic.cq)), !.cq = Tail(mic.cq)]
    /\ UNCHANGED <<kind, capVars, selVars, q, handle, nhandles, thread, nthreads,
                   fallbackVars, prod, thr, out, enq, nplays, returned, raised,
                   callers, exited, clk>>

\* ------------------------------------------------------ specification
Init ==
    /\ has_pyaudio \in BOOLEAN
    /\ ffplay \in {"absent", "failing", "ok"}
    /\ gmgr = "unset"
    /\ warned = FALSE
    /\ kind = "none"
    /\ q = <<>>
    /\ handle = None
    /\ nhandles = 0
    /\ thread = None
    /\ nthreads = 0
    /\ pending = NoSeg
    /\ has_pending = FALSE
    /\ lock = Free
    /\ prod = [p \in Producers |-> IdleProd]
    /\ thr = [t \in Threads |-> NoThread]
    /\ out = <<>>
    /\ enq = <<>>
    /\ nplays = 0
    /\ returned = 0
    /\ raised = 0
    /\ callers = 0
    /\ exited = {}
    /\ clk = NoClock
    /\ mic = NoMic

ProducerStep(p) ==
    \/ \E b \in Inputs : PlayPut(p, b.ms, b.rate)
    \/ ChkHandle(p)
    \/ OpenHandle(p)
    \/ ChkThread(p)
    \/ MkThread(p)
    \/ StartThread(p)
    \/ \E b \in Inputs : FbChkThread(p, b.ms, b.rate)
    \/ FbAcquire(p)
    \/ FbMerge(p)

ThreadStep(t) ==
    \/ DevSleep(t)
    \/ DevGet(t)
    \/ DevWrite(t)
    \/ PipeStart(t)
    \/ PipeGet(t)
    \/ PipeWrite(t)
    \/ PipeEmpty(t)
    \/ PipeWake(t)
    \/ PipeSilence(t)
    \/ PipeWakeIdle(t)
    \/ FbWait(t)
    \/ FbThreadAcquire(t)
    \/ FbTake(t)
    \/ FbPlay(t)
    \/ FbPlayDone(t)

MicStep ==
    \/ \E k \in MicKinds : OpenMic(k)
    \/ MicCtorQ
    \/ MicCtorLoop
    \/ DeviceFrame
    \/ MicPoll
    \/ MicSleep
    \/ MicEnqueueSync
    \/ MicSubmit
    \/ LoopRunPut
    \/ MicResult
    \/ \E st \in {"stopped", "closed"}, cancel \in BOOLEAN : LoopStop(st, cancel)
    \/ Pull

Next ==
    \/ ImportAudio
    \/ UseGlobal
    \/ \E k \in SinkKinds : Construct(k)
    \/ \E p \in Producers : ProducerStep(p)
    \/ \E t \in Threads : ThreadStep(t)
    \/ \E h \in Handles : PlayerExit(h)
    \/ Tick
    \/ MicStep

Spec == Init /\ [][Next]_vars

\* A play() call that has begun goes on to its end.
Finish(p) == prod[p].pc # "idle" /\ ProducerStep(p)

\* Every thread that can take a step takes one in the end, and time passes.
FairSpec ==
    /\ Init
    /\ [][Next]_vars
    /\ \A p \in Producers : WF_vars(Finish(p))
    /\ \A t \in Threads : WF_vars(ThreadStep(t))
    /\ WF_vars(Tick)

\* ------------------------------------------------------------ helpers
\* The total duration of a sequence of segments.
RECURSIVE SumMs(_)
SumMs(segs) == IF segs = <<>> THEN 0 ELSE Head(segs).ms + SumMs(Tail(segs))

\* The play() calls a sequence of segments came from, in order.
RECURSIVE AllIds(_)
AllIds(segs) == IF segs = <<>> THEN <<>> ELSE Head(segs).ids \o AllIds(Tail(segs))

\* ---------------------------------------------------------------- C2
HasId(e, i) == \E k \in 1..Len(e.ids) : e.ids[k] = i

\* The writes one queued segment is due: 500 ms chunks on the device, one
\* write (or one call) otherwise; and the duration of each.
PartsDue(seg) ==
    IF kind = "PyAudio" THEN 1..((seg.ms + 499) \div 500) ELSE {1}
PartMs(seg, part) ==
    IF kind = "PyAudio" THEN (IF part * 500 <= seg.ms THEN 500 ELSE seg.ms - (part - 1) * 500)
    ELSE seg.ms

\* Segment number i of enq has reached the sink in full.
Delivered(i) ==
    /\ i <= Len(enq)
    /\ \A part \in PartsDue(enq[i]) :
         \E j \in 1..Len(out) :
             /\ out[j].k = "audio"
             /\ HasId(out[j], enq[i].ids[1])
             /\ out[j].part = part
             /\ IF Len(out[j].ids) = 1 THEN out[j].ms = PartMs(enq[i], part)
                ELSE out[j].ms > PartMs(enq[i], part)

SinkBroken == exited # {}

IdsPart(e) == [k \in 1..Len(e.ids) |-> <<e.ids[k], e.part>>]
RECURSIVE AudioOrder(_)
AudioOrder(o) ==
    IF o = <<>> THEN <<>>
    ELSE (IF Head(o).k = "audio" THEN IdsPart(Head(o)) ELSE <<>>) \o AudioOrder(Tail(o))

\* What the segments that entered the queue are due, in their order.
RECURSIVE DueOrder(_)
DueOrder(e) ==
    IF e = <<>> THEN <<>>
    ELSE [part \in 1..Cardinality(PartsDue(Head(e))) |-> <<Head(e).ids[1], part>>]
         \o DueOrder(Tail(e))

IsPrefix(a, b) == Len(a) <= Len(b) /\ SubSeq(b, 1, Len(a)) = a

\* C1: the audio written to the sink is the enqueued segments in the order
\* they were enqueued, every 500 ms chunk of one before any chunk of the
\* next, none interleaved, none twice.
C1_OrderPreserved == IsPrefix(AudioOrder(out), DueOrder(enq))

\* ---------------------------------------------------------------- C3
StartedThreads == {t \in Threads : thr[t].pc \notin {"none", "created"}}

\* No play() call is under way.
AllIdle == \A p \in Producers : prod[p].pc = "idle"

\* C3: no delivery thread is started before the first play(), never more
\* than one is, and exactly one has been once the play() calls made have
\* ended, however they interleaved.
C3_OneDeliveryThread ==
    /\ nplays = 0 => StartedThreads = {}
    /\ Cardinality(StartedThreads) <= 1
    /\ (nplays >= 1 /\ AllIdle) => Cardinality(StartedThreads) = 1

\* ---------------------------------------------------------------- C4
\* C4: a play() call never waits for a delivery step.  Each of its
\* statements can be executed whatever the delivery threads are doing, but
\* for the entry of the with block, and the mutex it waits for there is
\* held by another play() about to leave the block or by a delivery thread
\* about to leave it: no delivery thread holds the mutex while it is in
\* play(segment).
C4_FireAndForget ==
    /\ \A t \in Threads : thr[t].pc \in {"play", "playing"} => lock # <<"t", t>>
    /\ \A p \in Producers :
         prod[p].pc \notin {"idle", "acquire"} => ENABLED ProducerStep(p)
    /\ \A p \in Producers :
         (prod[p].pc = "acquire" /\ lock # Free) =>
             \/ lock[1] = "p" /\ prod[lock[2]].pc = "merge"
             \/ lock[1] = "t" /\ thr[lock[2]].pc = "take"

\* A play() call is inside the with block while play(segment) is running.
C4_Witness ==
    \E t \in Threads, p \in Producers :
        /\ thr[t].pc = "playing"
        /\ prod[p].pc = "merge"
        /\ lock = <<"p", p>>

\* ---------------------------------------------------------------- C5
\* No delivery thread has taken the slot yet.
NoTakeYet ==
    /\ out = <<>>
    /\ \A t \in Threads : thr[t].pc \in {"none", "created", "started", "wait", "acquire", "take"}

\* C5: segments put into the slot before a delivery thread takes it are in
\* the slot as one segment, each followed by the next, and what the sink
\* gets in one play() call is such a run of segments, whole, which it gets
\* in no other call.
C5_FallbackMerge ==
    kind = "PyDub" =>
        /\ (enq # <<>> /\ NoTakeYet) =>
               /\ pending.ids = AllIds(enq)
               /\ pending.ms = SumMs(enq)
        /\ \A j \in 1..Len(out) :
               /\ \E i \in 1..Len(enq), n \in 1..Len(enq) :
                      /\ i + n - 1 <= Len(enq)
                      /\ out[j].ids = AllIds(SubSeq(enq, i, i + n - 1))
                      /\ out[j].ms = SumMs(SubSeq(enq, i, i + n - 1))
               /\ \A i \in 1..Len(out) :
                      i # j => \A k \in 1..Len(out[i].ids) : ~HasId(out[j], out[i].ids[k])

\* Both play() calls have returned and the sink has had one call, with both.
C5_Witness ==
    /\ kind = "PyDub"
    /\ returned = 2
    /\ Len(out) = 1
    /\ out[1].ids = <<1, 2>>
    /\ \E t \in Threads : thr[t].pc = "wait"

\* ---------------------------------------------------------------- C6
\* The frame the capture thread holds and has not handed over.
InHand == IF mic.frame # <<>> /\ mic.tpc # "dead" THEN <<mic.frame>> ELSE <<>>

\* C6: while the consumer is there to pull, the frames it has pulled, those
\* waiting in the queue and the one in the capture thread's hand are the
\* frames read from the device, in the order they were read: none lost,
\* none twice, none out of place, however the capture thread interleaves
\* with the construction of the stream and with the pulls.
C6_CaptureFidelity ==
    (kind \in MicKinds /\ mic.loopst \in {"none", "running"}) =>
        mic.got \o mic.cq \o InHand = mic.read

\* ---------------------------------------------------------------- C7
\* The sink the selection order names for the capabilities found.
SinkFor(device, player) ==
    IF device THEN "PyAudio" ELSE IF player THEN "FFMPEG" ELSE "PyDub"

\* C7: the import leaves a sink chosen, for each of the four combinations of
\* capabilities the one the selection order names, with a warning exactly
\* when it is the fallback.
C7_SinkSelection ==
    gmgr # "unset" =>
        /\ gmgr = SinkFor(has_pyaudio, ffplay_available)
        /\ warned = (gmgr = "PyDub")

\* ---------------------------------------------------------------- C8
\* C8: the clk.n0 segments in the queue when the delivery thread enters its
\* loop are the first clk.n0 writes to the pipe, all made by that thread with
\* no silence between them, and after the last of them playing_until is its
\* first value plus their durations.
C8_GapFreeBurst ==
    (kind = "FFMPEG" /\ clk.t # None) =>
        /\ \A i \in 1..clk.n0 :
               i <= Len(out) =>
                   /\ out[i].k = "audio"
                   /\ out[i].by = {clk.t}
                   /\ out[i].ids = enq[i].ids
        /\ (Len(out) = clk.n0 /\ thr[clk.t].pc = "poll") =>
               thr[clk.t].adv = SumMs(SubSeq(enq, 1, clk.n0))

\* ---------------------------------------------------------------- C9
\* The last write to the pipe was a silence block.
SilenceLast == out # <<>> /\ out[Len(out)].k = "silence"

\* C9 (second part): when a silence block is written to the pipe right
\* after another, 50 ms or more have passed since that one was written.
C9_SilenceSpacing ==
    [][\A t \in Threads :
          (thr[t].pc = "silence" /\ thr'[t].pc = "sleep_idle" /\ SilenceLast) =>
              clk.quiet = PollCapMs]_vars

\* --------------------------------------------------------------- C10
\* C10: with a single play() made, the first write to the player's stdin is
\* the segment, 48000 bytes for one second of audio, not silence; and
\* playing_until is then its first value plus the segment's duration.
C10_FirstAudio ==
    (kind = "FFMPEG" /\ nplays = 1 /\ out # <<>>) =>
        /\ out[1].k = "audio"
        /\ out[1].ids = <<1>>
        /\ enq[1].ms = 1000 => out[1].n = 48000
        /\ enq[1].ms = 50 => out[1].n = 2400
        /\ (Len(out) = 1 /\ thr[clk.t].pc # "dead") => thr[clk.t].adv = enq[1].ms

\* The one-second segment has been written and nothing else.
C10_Witness ==
    /\ kind = "FFMPEG"
    /\ nplays = 1
    /\ AllIdle
    /\ Len(out) = 1
    /\ out[1].n = 48000
    /\ thr[clk.t].adv = 1000
    /\ thr[clk.t].pc = "sleep"

\* --------------------------------------------------------------- C11
\* C11: while the consumer's event loop runs and the consumer pulls nothing,
\* the capture thread is held in its republish step before the queue holds
\* every frame the device has had to give: the queue stays shorter than that.
C11_BackPressure ==
    (kind = "MicAsync" /\ mic.loopst = "running" /\ mic.got = <<>>) =>
        Len(mic.cq) < MaxFrames

\* --------------------------------------------------------------- C12
\* C12: a capture thread waiting in fut.result() is not left waiting on an
\* event loop that has stopped: its submission has then completed or been
\* cancelled, so that the wait returns.
C12_HandOffReturns ==
    (kind = "MicAsync" /\ mic.tpc = "wait" /\ mic.loopst # "running") =>
        mic.sub \in {"done", "cancelled"}

\* --------------------------------------------------------------- C13
\* C13: a device or pipe manager opens at most one handle, whatever the
\* number of play() calls and however they interleave, and the handle field
\* keeps the value it was first given.
C13_HandleOnce ==
    /\ nhandles <= 1
    /\ handle \in {None, 1}

\* --------------------------------------------------------------- C14
\* The delivery thread enters the sleep taken while audio is still playing.
EntersSleep(t) == thr[t].pc = "poll" /\ thr'[t].pc = "sleep"

\* C14 as stated: the sleep entered with remaining = playing_until - now > 0
\* lasts min(50 ms, remaining / 2).  (Sleeps are in half milliseconds.)
C14_SleepCapped ==
    [][\A t \in Threads :
          EntersSleep(t) => thr'[t].nap2 = Min(2 * PollCapMs, thr[t].ahead)]_vars

\* C14 as the code has it: the sleep is entered with remaining > 0 only, and
\* it lasts the whole of remaining when that is 50 ms or less, 50 ms when
\* remaining is between 50 and 100 ms, and half of remaining beyond: never
\* more than remaining, never less than half of it, and more than 50 ms
\* whenever remaining is more than 100 ms.
C14_SleepLength ==
    [][\A t \in Threads :
          EntersSleep(t) =>
              /\ thr[t].ahead > 0
              /\ thr'[t].nap2 =
                     IF thr[t].ahead <= PollCapMs THEN 2 * thr[t].ahead
                     ELSE IF thr[t].ahead <= 2 * PollCapMs THEN 2 * PollCapMs
                     ELSE thr[t].ahead
              /\ thr'[t].nap2 <= 2 * thr[t].ahead
              /\ thr'[t].nap2 >= thr[t].ahead]_vars

\* A sleep of 500 ms has been entered with one second of audio to go.
C14_Witness ==
    \E t \in Threads :
        /\ thr[t].pc = "sleep"
        /\ thr[t].ahead = 1000
        /\ thr[t].nap2 = 1000

\* --------------------------------------------------------------- C15
\* The positions of a delivery thread inside its loop.
LoopPcs == {"poll", "write", "silence", "sleep", "sleep_idle"}

\* C15: a step of the delivery loop changes playing_until in two ways only:
\* the write of a segment adds the segment's duration, and the end of the
\* sleep that follows a silence block sets it to the clock, which is then not
\* before it.  No step of the loop lowers it.  (thr[t].ahead is playing_until
\* less the clock, and no time passes in a step of the thread.)
C15_DeadlineMonotone ==
    [][\A t \in Threads :
          (thr[t].pc \in LoopPcs /\ thr'[t].pc \in LoopPcs /\ thr'[t].pc # thr[t].pc) =>
              CASE thr[t].pc = "write" ->
                       /\ thr'[t].ahead = thr[t].ahead + thr[t].seg.ms
                       /\ thr'[t].ahead >= thr[t].ahead
                [] thr[t].pc = "sleep_idle" ->
                       /\ thr'[t].ahead = 0
                       /\ thr[t].ahead <= 0
                [] OTHER -> thr'[t].ahead = thr[t].ahead]_vars

\* playing_until has been set from the clock and a segment written since.
C15_Witness ==
    \E t \in Threads :
        /\ thr[t].pc = "poll"
        /\ thr[t].adv = -1
        /\ thr[t].ahead > 0

\* --------------------------------------------------------------- C18
\* C18: a delivery thread turns to the silence branch only from a dequeue
\* that found the queue empty, with its playing_until not after the clock;
\* and when it writes the silence block its playing_until is still not after
\* the clock: by its own accounting nothing it wrote is still sounding.
C18_SilenceOnlyWhenIdle ==
    [][\A t \in Threads :
          /\ (thr[t].pc # "silence" /\ thr'[t].pc = "silence") =>
                 /\ thr[t].pc = "poll"
                 /\ q = <<>>
                 /\ thr[t].ahead <= 0
          /\ (thr[t].pc = "silence" /\ thr'[t].pc = "sleep_idle") =>
                 /\ thr[t].ahead <= 0
                 /\ out'[Len(out')].k = "silence"]_vars

\* A thread has written a segment and, once it had played, a silence block.
C18_Witness ==
    \E t \in Threads :
        /\ thr[t].pc = "sleep_idle"
        /\ Len(out) >= 2
        /\ out[Len(out)].k = "silence"
        /\ out[Len(out)].by = {t}
        /\ out[Len(out) - 1].k = "audio"
        /\ out[Len(out) - 1].by = {t}

\* --------------------------------------------------------------- C16
\* A delivery thread of the pipe manager has ended on a failed write.
PipeThreadDead == kind = "FFMPEG" /\ \E t \in Threads : thr[t].pc = "dead"

\* C16: once a delivery thread has ended on a failed write, nothing more is
\* written to the pipe, nothing is taken from the queue, no thread and no
\* player process is created, and no play() call ends with an exception.
C16_DeadThread ==
    [][PipeThreadDead =>
          /\ out' = out
          /\ Len(q') >= Len(q)
          /\ nthreads' = nthreads
          /\ nhandles' = nhandles
          /\ raised' = raised]_vars

\* --------------------------------------------------------------- C17
\* C17: whatever was written to a device or a pipe was written by a started
\* delivery thread to a handle that had been assigned, and no delivery thread
\* is started, nor is at its write, while the handle field is unset.
C17_HandleOwnership ==
    kind \in {"PyAudio", "FFMPEG"} =>
        /\ \A j \in 1..Len(out) :
               /\ out[j].by # {}
               /\ out[j].by \subseteq StartedThreads
               /\ out[j].h # None
        /\ StartedThreads # {} => handle # None
        /\ \A t \in Threads : thr[t].pc \in {"write", "silence"} => handle # None

\* A delivery thread has written to the handle while a play() call is under
\* way.
C17_Witness ==
    /\ kind \in {"PyAudio", "FFMPEG"}
    /\ out # <<>>
    /\ out[1].h = handle
    /\ \E p \in Producers : prod[p].pc = "chk_handle"

\* --------------------------------------------------------------- C19
\* C19: whenever the mutex is free, the event is set exactly when the slot
\* holds a segment; and no delivery thread calls play(segment) with None.
C19_SlotEvent ==
    kind = "PyDub" =>
        /\ lock = Free => (has_pending <=> pending # NoSeg)
        /\ \A t \in Threads : thr[t].pc = "play" => thr[t].seg # NoSeg

\* --------------------------------------------------------------- C20
\* C20: the capture thread calls _enqueue only once self.q, and for the
\* asynchronous stream self.loop, has been assigned.
C20_QueueBeforeEnqueue ==
    [][(mic.tpc = "enqueue" /\ mic'.tpc # "enqueue") =>
          /\ mic.q
          /\ kind = "MicAsync" => mic.loop]_vars

====
